---- MODULE Spec2Model ----
(***************************************************************************)
(* The API-key failover and resilience layer of the voice assistant        *)
(* (src/src/real-gemini-ai.js, the hardened variant at lines 165-444):     *)
(* the credential cache, the rate gate, the credential fetch with retries  *)
(* and backoff, the sequential failover loop over the pool, the cleaning   *)
(* of the reply and the classification of errors; and the status of the    *)
(* App component that calls it (lines 454-659 of the same file).           *)
(*                                                                         *)
(* Time is counted in ticks of 1000 ms.  JavaScript strings that the code  *)
(* takes apart (keys, replies, user messages) are sequences of one-        *)
(* character strings; error messages are sequences of fragments, and       *)
(* String.includes is membership of a fragment.                            *)
(***************************************************************************)
EXTENDS Integers, Sequences, FiniteSets, TLC

(***************************************************************************)
(* Configuration (lines 169-173), in ticks.  CACHE_DURATION, MAX_RETRIES   *)
(* REQUEST_TIMEOUT and MIN_REQUEST_INTERVAL are read from the environment; *)
(* the values are those of a deployment that sets 3000 ms, 3 attempts,     *)
(* 1000 ms and 2000 ms.                                                    *)
(***************************************************************************)
CACHE_DURATION == 3
MAX_RETRIES == 3
RETRY_DELAY == 1
REQUEST_TIMEOUT == 1
MIN_REQUEST_INTERVAL == 2
API_KEY_LENGTH == 39
MAX_INPUT_LENGTH == 1000
MAX_REPLY_LENGTH == 500

(***************************************************************************)
(* Bounds of the model.                                                    *)
(***************************************************************************)
StartTime == 10
MaxTicks == 3
MaxRecords == 2

Calls == {"c1", "c2"}
CallOrder == [c \in Calls |-> IF c = "c1" THEN 1 ELSE 2]

Min(a, b) == IF a < b THEN a ELSE b

\* the least and the greatest index of a non-empty set of indices
Least(S) == CHOOSE k \in S : \A j \in S : k <= j
Greatest(S) == CHOOSE k \in S : \A j \in S : k >= j

(***************************************************************************)
(* JavaScript values.                                                      *)
(***************************************************************************)
Undefined == [t |-> "undefined", c |-> <<>>]
Str(cs) == [t |-> "string", c |-> cs]
Num(cs) == [t |-> "number", c |-> cs]

\* ToBoolean of a value: undefined and "" are falsy.
Truthy(v) == CASE v.t = "undefined" -> FALSE
               [] v.t = "string" -> Len(v.c) > 0
               [] OTHER -> v.c # <<"0">>

\* a || b
OrElse(a, b) == IF Truthy(a) THEN a ELSE b

Whitespace == {" ", "\n", "\t"}
\* the grave accent, U+0060, written as a named atom
Backtick == "U+0060"
HtmlChars == {"<", ">", "\"", "'", "&"}

LowerCase == <<"a","b","c","d","e","f","g","h","i","j","k","l","m",
               "n","o","p","q","r","s","t","u","v","w","x","y","z">>
UpperCase == <<"A","B","C","D","E","F","G","H","I","J","K","L","M",
               "N","O","P","Q","R","S","T","U","V","W","X","Y","Z">>
Digits == {"0","1","2","3","4","5","6","7","8","9"}
Letters == {LowerCase[i] : i \in 1..26} \cup {UpperCase[i] : i \in 1..26}

ToLower(ch) == IF \E i \in 1..26 : UpperCase[i] = ch
               THEN LowerCase[CHOOSE i \in 1..26 : UpperCase[i] = ch]
               ELSE ch

\* String.prototype.trim
TrimLeft(s) ==
    LET kept == {k \in 1..Len(s) : s[k] \notin Whitespace}
    IN IF kept = {} THEN <<>> ELSE SubSeq(s, Least(kept), Len(s))
TrimRight(s) ==
    LET kept == {k \in 1..Len(s) : s[k] \notin Whitespace}
    IN IF kept = {} THEN <<>> ELSE SubSeq(s, 1, Greatest(kept))
Trim(s) == TrimRight(TrimLeft(s))

\* a slip: the cut is one character short
Substring0Short(s, n) == SubSeq(s, 1, Min(Len(s), n - 1))

\* String.prototype.substring(0, n)
Substring0(s, n) == SubSeq(s, 1, Min(Len(s), n))

\* a slip: the g flag is missing and only the first match is replaced
RemoveFirstChar(s, set) ==
    LET hits == {k \in 1..Len(s) : s[k] \in set}
    IN IF hits = {} THEN s
       ELSE LET k == CHOOSE h \in hits : \A j \in hits : h <= j
            IN SubSeq(s, 1, k - 1) \o SubSeq(s, k + 1, Len(s))

\* replace(/[set]/g, '')
RemoveChars(s, set) == SelectSeq(s, LAMBDA ch : ch \notin set)

\* replace(/word/gi, ''): left to right, non-overlapping, case-insensitive
RECURSIVE RemoveWordCI(_, _)
RemoveWordCI(s, word) ==
    LET starts == {k \in 1..(Len(s) - Len(word) + 1) :
                     \A j \in 1..Len(word) : ToLower(s[k + j - 1]) = word[j]}
    IN IF starts = {} THEN s
       ELSE SubSeq(s, 1, Least(starts) - 1)
            \o RemoveWordCI(SubSeq(s, Least(starts) + Len(word), Len(s)), word)

JavascriptScheme == <<"j","a","v","a","s","c","r","i","p","t",":">>
DataScheme == <<"d","a","t","a",":">>

\* sanitizeInput, lines 195-205
sanitizeInput(input) ==
    IF input.t # "string" THEN <<>>
    ELSE Substring0(
           Trim(RemoveWordCI(RemoveWordCI(RemoveChars(input.c, HtmlChars),
                                          JavascriptScheme),
                             DataScheme)),
           MAX_INPUT_LENGTH)

(***************************************************************************)
(* Key format, lines 208-213.                                              *)
(***************************************************************************)
KeyPrefix == <<"A","I","z","a","S","y">>
KeyAlphabet == Letters \cup Digits \cup {"_", "-"}

StartsWith(s, p) == Len(s) >= Len(p) /\ SubSeq(s, 1, Len(p)) = p

isValidApiKey(key) ==
    /\ key.t = "string"
    /\ StartsWith(key.c, KeyPrefix)
    /\ Len(key.c) = API_KEY_LENGTH
    /\ key.c # <<>>
    /\ \A k \in 1..Len(key.c) : key.c[k] \in KeyAlphabet

(***************************************************************************)
(* Cleaning of the provider's reply, lines 390-399.                        *)
(***************************************************************************)
\* replace(/\*\*/g, '')
RECURSIVE RemoveDoubleStars(_)
RemoveDoubleStars(s) ==
    LET starts == {k \in 1..(Len(s) - 1) : s[k] = "*" /\ s[k + 1] = "*"}
    IN IF starts = {} THEN s
       ELSE SubSeq(s, 1, Least(starts) - 1)
            \o RemoveDoubleStars(SubSeq(s, Least(starts) + 2, Len(s)))

\* the number of leading characters of s equal to ch
RunLength(s, ch) ==
    LET others == {k \in 1..Len(s) : s[k] # ch}
    IN IF others = {} THEN Len(s) ELSE Least(others) - 1

\* the part of s from index k on
From(s, k) == SubSeq(s, k, Len(s))

\* replace(/#{1,6}\s/g, ''): a match starts where 1 to 6 '#' are followed by a
\* whitespace character; a longer run of '#' matches only from its last six on
RECURSIVE RemoveHeadings(_)
RemoveHeadings(s) ==
    LET starts == {k \in 1..Len(s) :
                     /\ s[k] = "#"
                     /\ LET r == RunLength(From(s, k), "#")
                        IN r <= 6 /\ Len(s) >= k + r /\ s[k + r] \in Whitespace}
    IN IF starts = {} THEN s
       ELSE LET k == Least(starts)
            IN SubSeq(s, 1, k - 1)
               \o RemoveHeadings(From(s, k + RunLength(From(s, k), "#") + 1))

\* replace(/\n{2,}/g, ' ')
RECURSIVE CollapseNewlines(_)
CollapseNewlines(s) ==
    LET starts == {k \in 1..(Len(s) - 1) : s[k] = "\n" /\ s[k + 1] = "\n"}
    IN IF starts = {} THEN s
       ELSE LET k == Least(starts)
            IN SubSeq(s, 1, k - 1) \o <<" ">>
               \o CollapseNewlines(From(s, k + RunLength(From(s, k), "\n")))

\* replace(/\n/g, ' ')
NewlinesToSpaces(s) == [k \in 1..Len(s) |-> IF s[k] = "\n" THEN " " ELSE s[k]]

\* lines 390-398: the replacements and the trim
StripReply(reply) ==
    Trim(RemoveChars(
           NewlinesToSpaces(
             CollapseNewlines(
               RemoveChars(
                 RemoveHeadings(
                   RemoveChars(RemoveDoubleStars(reply), {"*"})),
                 {Backtick}))),
           HtmlChars))

\* lines 390-399
CleanReply(reply) == Substring0(StripReply(reply), MAX_REPLY_LENGTH)

(***************************************************************************)
(* Error messages.  A message is a sequence of fragments; the fragments    *)
(* that the classification looks for stand alone.                          *)
(***************************************************************************)
MsgRateGate == <<"Please wait a moment before making another request.">>
MsgInvalidQuestion == <<"Please provide a valid question.">>
MsgFetchFailed == <<"Unable to ", "fetch", " API keys. Please try again later.">>
MsgInvalidReply == <<"Invalid response from AI">>
MsgEmptyReply == <<"Empty response from AI">>
MsgAllFailed == <<"All API keys failed">>

OutUnavailable == <<"Service temporarily unavailable. Please try again later.">>
OutNetwork == <<"Network error. Please check your connection.">>
OutConfiguration == <<"Service configuration error. Please try again later.">>
OutGeneric == <<"Unable to process request. Please try again.">>

\* String.prototype.includes
Includes(msg, fragment) == \E k \in 1..Len(msg) : msg[k] = fragment

\* the outer catch of getRealGeminiResponse, lines 419-436
ClassifyError(message) ==
    LET errorMessage == IF message = <<>> THEN <<"An error occurred">> ELSE message
    IN IF Includes(errorMessage, "rate limit") \/ Includes(errorMessage, "quota")
       THEN OutUnavailable
       ELSE IF Includes(errorMessage, "network") \/ Includes(errorMessage, "fetch")
       THEN OutNetwork
       ELSE IF Includes(errorMessage, "Invalid API key") \/ Includes(errorMessage, "API_KEY")
       THEN OutConfiguration
       ELSE OutGeneric

(***************************************************************************)
(* The records of the credential source and their validation,              *)
(* lines 275-289.                                                          *)
(***************************************************************************)
Fill(n, ch) == [k \in 1..n |-> ch]

Key1 == KeyPrefix \o Fill(33, "a")
Key2 == KeyPrefix \o Fill(31, "B") \o <<"_", "-">>
KeyShort == KeyPrefix \o Fill(32, "a")
KeyBadPrefix == <<"B","I","z","a","S","y">> \o Fill(33, "a")
KeyBadChar == KeyPrefix \o Fill(32, "a") \o <<"!">>

Working == Str(<<"Working">>)
NotWorking == Str(<<"Not Working">>)

Rec(stat, keySp, key, name) ==
    [isNull |-> FALSE, Status |-> stat, ApiKeySp |-> keySp, ApiKey |-> key, Name |-> name]
NullRec ==
    [isNull |-> TRUE, Status |-> Undefined, ApiKeySp |-> Undefined, ApiKey |-> Undefined,
     Name |-> Undefined]

RecGood == Rec(Working, Str(Key1), Undefined, Str(<<"Key 1">>))
RecNotWorking == Rec(NotWorking, Str(Key1), Undefined, Str(<<"Key 3">>))
RecNoStatus == Rec(Undefined, Undefined, Str(Key2), Str(<<"Key 4">>))
RecShortKey == Rec(Working, Str(KeyShort), Undefined, Str(<<"Key 5">>))
RecBadPrefix == Rec(Working, Undefined, Str(KeyBadPrefix), Str(<<"Key 6">>))
RecBadChar == Rec(Working, Str(KeyBadChar), Undefined, Str(<<"Key 7">>))
RecNoKey == Rec(Working, Undefined, Str(<<>>), Str(<<"Key 8">>))
RecEmptyName == Rec(Working, Str(Key1), Undefined, Str(<<>>))
RecNumberName == Rec(Working, Undefined, Str(Key2), Num(<<"7">>))
RecNoName == Rec(Working, Str(Key1), Undefined, Undefined)

Records == {RecGood, RecNotWorking, RecNoStatus, RecShortKey, RecBadPrefix, RecBadChar,
            RecNoKey, RecEmptyName, RecNumberName, RecNoName, NullRec}

\* key['Api Key '] || key['Api Key'], lines 281 and 331
SelectKey(rec) == OrElse(rec.ApiKeySp, rec.ApiKey)

\* a slip: the filter forgets the status
IsWorkingKeyAnyStatus(rec) ==
    /\ isValidApiKey(SelectKey(rec))
    /\ Truthy(rec.Name)
    /\ rec.Name.t = "string"

\* a slip: the filter forgets the format of the key
IsWorkingKeyAnyKey(rec) ==
    /\ rec.Status = Working
    /\ Truthy(rec.Name)
    /\ rec.Name.t = "string"

\* the predicate of the filter, lines 280-285
IsWorkingKey(rec) ==
    /\ rec.Status = Working
    /\ isValidApiKey(SelectKey(rec))
    /\ Truthy(rec.Name)
    /\ rec.Name.t = "string"

\* reading a property of null throws a TypeError inside the filter
FilterThrows(items) == \E k \in 1..Len(items) : items[k].isNull

FilterWorkingKeys(items) == SelectSeq(items, IsWorkingKey)

(***************************************************************************)
(* What the network can answer.                                            *)
(***************************************************************************)
SeqsUpTo(S, n) == UNION {[1..k -> S] : k \in 0..n}

\* the outcome of fetch(API_KEYS_ENDPOINT) and response.json(), lines 257-277
Responses ==
    {[kind |-> k, items |-> <<>>] : k \in {"neterr", "http", "badjson", "notarray"}}
    \cup {[kind |-> "array", items |-> s] : s \in SeqsUpTo(Records, MaxRecords)}

ProviderErrors ==
    { <<"[429] Resource exhausted: ", "quota", " exceeded">>,
      <<"[400] API key not valid. ", "API_KEY", "_INVALID">>,
      <<"Error fetching from the endpoint: ", "fetch", " failed">>,
      <<>> }

ProviderReplies ==
    { Undefined, Str(<<>>), Str(<<"*", "*">>),
      Str(<<"#", " ", "*", "H", "i", "*", "\n">>) }

\* the outcome of model.generateContent and response.text(), lines 378-382
ProviderOutcomes ==
    {[ok |-> FALSE, error |-> e, reply |-> Undefined] : e \in ProviderErrors}
    \cup {[ok |-> TRUE, error |-> <<>>, reply |-> r] : r \in ProviderReplies}

UserMessages ==
    { Undefined, Str(<<>>), Str(<<" ", "<", ">">>), Str(<<"h", "i">>),
      Str(<<"D", "a", "t", "a", ":">>) }

(***************************************************************************)
(* State.                                                                  *)
(*   cachedApiKeys, lastFetchTime, lastRequestTime: the module's variables *)
(*     (lines 188-192); cachedApiKeys is null or an array.               *)
(*   now: Date.now().                                                      *)
(*   call[c]: the frame of the getRealGeminiResponse call c, suspended at  *)
(*     pc; timer is the time left on the timer of line 376 while the call  *)
(*     waits for the provider, aborted the flag of the AbortController of  *)
(*     line 375.  hist[c]: what the call has done so far (observation      *)
(*     only):                                                              *)
(*     the stage it reached, whether it found the cache fresh (fresh), the *)
(*     number of fetches its fetchApiKeys has issued while that is running *)
(*     or has failed (fetches), how the attempt failed after which its     *)
(*     fetchApiKeys waits or has given up (lastFetch: "error", or "empty"  *)
(*     for a response without working keys), whether fetchApiKeys returned *)
(*     a pool that it                                                      *)
(*     fetched (fetched); fresh and fetched tell how fetchApiKeys served   *)
(*     the call and are kept up to the return of the call's first provider *)
(*     call; the number of provider calls that came back                   *)
(*     (asked), whether all but the last of them failed (failedSoFar) and, *)
(*     once the call has ended, the outcome of the last one; whether a     *)
(*     provider call came back with a reply that is a string with a        *)
(*     cleaned form that is not empty (accepted); the number of its        *)
(*     network calls that are in flight (inFlight).                        *)
(*   gatePassedAt, invalidPassed, resetSince, resetPending: observation of *)
(*     the gate and of refreshApiKeys; invalidPassed tells that the call   *)
(*     that passed the gate at gatePassedAt failed at the validation of    *)
(*     its message (line 321).                                             *)
(*   status, transcript, response, error: the state of the App component   *)
(*     (lines 456-459);                                                    *)
(*     shouldProcess, lastTranscript: the fields that it keeps on          *)
(*     recognitionRef.current (lines 608-609); recognition: where the      *)
(*     SpeechRecognition object is between start() and its end event;      *)
(*     backend: the calls of getRealGeminiResponse that sendToBackend      *)
(*     awaits (line 516); utterance: where the utterance given to          *)
(*     speechSynthesis.speak is (line 507).                                *)
(***************************************************************************)
VARIABLES cachedApiKeys, lastFetchTime, lastRequestTime, now, call, hist,
          gatePassedAt, invalidPassed, resetSince, resetPending, arg, results,
          status, transcript, response, error, shouldProcess, lastTranscript,
          recognition, backend, utterance

appVars == <<status, transcript, response, error, shouldProcess, lastTranscript,
             recognition, backend, utterance>>

vars == <<cachedApiKeys, lastFetchTime, lastRequestTime, now, call, hist,
          gatePassedAt, invalidPassed, resetSince, resetPending, arg, results,
          appVars>>

\* arg and results belong to the specifications of sanitizeInput and of the
\* cleaning of the reply taken alone (below): the value the function is
\* applied to and what the applications so far have returned
alone == <<arg, results, appVars>>

Null == [isNull |-> TRUE, keys |-> <<>>]
Array(keys) == [isNull |-> FALSE, keys |-> keys]

NoResult == [ok |-> FALSE, value |-> <<>>, error |-> <<>>]
Returned(value) == [ok |-> TRUE, value |-> value, error |-> <<>>]
Raised(message) == [ok |-> FALSE, value |-> <<>>, error |-> message]

IdleCall == [pc |-> "idle", now |-> 0, attempt |-> 0, wakeAt |-> 0, apiKeys |-> Null,
             i |-> 0, timer |-> 0, aborted |-> FALSE, result |-> NoResult]
NoOutcome == [ok |-> FALSE, error |-> <<"none">>, reply |-> Undefined]
IdleHist == [stage |-> "none", fresh |-> FALSE, fetches |-> 0, fetched |-> FALSE,
             lastFetch |-> "none", asked |-> 0,
             failedSoFar |-> TRUE, accepted |-> FALSE, last |-> NoOutcome,
             inFlight |-> 0]

\* the network calls of a call that are in flight: one more when fetch (line
\* 257) or generateContent (line 378) is called
Issued(h) == [h EXCEPT !.inFlight = @ + 1]

\* a slip: the answer is not awaited, the call goes on while the network call
\* is in flight
CompletedNotAwaited(h) == h

\* the await of line 257 or of line 378 resumes: the network call has ended
Completed(h) == [h EXCEPT !.inFlight = @ - 1]

\* the network call that a frame is left waiting for, if any
IssuedFor(frame, h) == IF frame.pc \in {"fetch", "provider"} THEN Issued(h) ELSE h

\* the App after its first render and its effect (lines 456-459, 607-609)
Mounted ==
    /\ status = "idle"
    /\ transcript = <<>>
    /\ response = <<>>
    /\ error = <<>>
    /\ shouldProcess = FALSE
    /\ lastTranscript = <<>>
    /\ recognition = "inactive"
    /\ backend = 0
    /\ utterance = "none"

Init ==
    /\ cachedApiKeys = Null
    /\ lastFetchTime = 0
    /\ lastRequestTime = 0
    /\ now = StartTime
    /\ call = [c \in Calls |-> IdleCall]
    /\ hist = [c \in Calls |-> IdleHist]
    /\ gatePassedAt = 0
    /\ invalidPassed = FALSE
    /\ resetSince = FALSE
    /\ resetPending = FALSE
    /\ arg = Undefined
    /\ results = <<>>
    /\ Mounted

(***************************************************************************)
(* getRealGeminiResponse, lines 310-437, and fetchApiKeys, lines 244-307.  *)
(***************************************************************************)
\* a slip: the comparison of line 314 is off by one tick
RateLimitedShort(t, last) == t - last < MIN_REQUEST_INTERVAL - 1

\* line 314
RateLimited(t, last) == t - last < MIN_REQUEST_INTERVAL

\* a slip: the time stamp is written before the test of line 314
GateStampAlways(t, last) == t

\* a slip: the time stamp is not written
GateStampNever(t, last) == last

\* lines 314-317: the time stamp that the gate leaves
GateStamp(t, last) == IF RateLimited(t, last) THEN last ELSE t

\* a slip: the age is compared the wrong way round
CacheValidInverted(cache, t, last) == ~cache.isNull /\ (t - last) >= CACHE_DURATION

\* a slip: the age of the cache is not looked at
CacheValidAnyAge(cache, t, last) == ~cache.isNull

\* line 248
CacheValid(cache, t, last) == ~cache.isNull /\ (t - last) < CACHE_DURATION

\* a slip: the error is thrown on as it was caught
ThrowUnclassified(frame, message) ==
    [frame EXCEPT !.pc = "done", !.result = Raised(message)]

\* the outer catch, lines 419-436: every error leaves the call classified
Throw(frame, message) ==
    [frame EXCEPT !.pc = "done", !.result = Raised(ClassifyError(message))]

\* lines 329-337: the index of the first key from i on that passes the re-check,
\* Len(keys) when there is none
RECURSIVE NextUsable(_, _)
NextUsable(keys, i) ==
    IF i >= Len(keys) THEN Len(keys)
    ELSE IF isValidApiKey(SelectKey(keys[i + 1])) THEN i
    ELSE NextUsable(keys, i + 1)

\* the for loop from index i up to the next await (line 378), or past its end
\* (line 417)
TryFrom(frame, i) ==
    LET j == NextUsable(frame.apiKeys.keys, i)
    IN IF j < Len(frame.apiKeys.keys)
       THEN [frame EXCEPT !.pc = "provider", !.i = j,
                          !.timer = REQUEST_TIMEOUT, !.aborted = FALSE]
       ELSE Throw([frame EXCEPT !.i = j], MsgAllFailed)

\* line 409
IsLastKey(i, keys) == i = Len(keys) - 1

\* a slip: the error of any key is thrown on, the test of line 409 is missing
CatchKeyErrorAbortsEarly(frame, keyError) == Throw(frame, keyError)

\* a slip: the last key's error is dropped and the loop runs out (line 417)
CatchKeyErrorDropsLast(frame, keyError) ==
    IF IsLastKey(frame.i, frame.apiKeys.keys)
    THEN Throw(frame, MsgAllFailed)
    ELSE TryFrom(frame, frame.i + 1)

\* the inner catch, lines 407-414
CatchKeyError(frame, keyError) ==
    IF IsLastKey(frame.i, frame.apiKeys.keys)
    THEN Throw(frame, keyError)
    ELSE TryFrom(frame, frame.i + 1)

\* A settled promise runs its caller's continuation as a microtask, before any
\* other event of the loop is taken.
NoneSettled == \A c \in Calls : call[c].pc # "done"

\* a new call takes the first free frame
FreeFrame == CHOOSE c \in Calls : call[c].pc = "idle" /\ \A d \in Calls :
                 call[d].pc = "idle" => CallOrder[c] <= CallOrder[d]

\* the calls of getRealGeminiResponse: the argument and, line 320, what
\* sanitizeInput makes of it
Questions ==
    {[userMessage |-> m, sanitizedMessage |-> sanitizeInput(m)] : m \in UserMessages}

\* a slip: the test of line 321 is missing
IsInvalidQuestionNever(sanitizedMessage) == FALSE

\* line 321
IsInvalidQuestion(sanitizedMessage) == Len(sanitizedMessage) < 1

\* getRealGeminiResponse from its call to its first await
Respond(c, question) ==
    /\ NoneSettled
    /\ call[c].pc = "idle"
    /\ c = FreeFrame
    /\ UNCHANGED alone
    /\ UNCHANGED <<now, lastFetchTime, cachedApiKeys>>
    /\ lastRequestTime' = GateStamp(now, lastRequestTime)
    /\ IF RateLimited(now, lastRequestTime)
       THEN /\ call' = [call EXCEPT ![c] = Throw(@, MsgRateGate)]
            /\ hist' = [hist EXCEPT ![c] = [IdleHist EXCEPT !.stage = "gate"]]
            /\ UNCHANGED <<gatePassedAt, invalidPassed, resetSince, resetPending>>
       ELSE /\ gatePassedAt' = now
            /\ resetSince' = FALSE
            /\ invalidPassed' = IsInvalidQuestion(question.sanitizedMessage)
            /\ IF IsInvalidQuestion(question.sanitizedMessage)
               THEN /\ call' = [call EXCEPT ![c] = Throw(@, MsgInvalidQuestion)]
                    /\ hist' = [hist EXCEPT ![c] = [IdleHist EXCEPT !.stage = "input"]]
                    /\ UNCHANGED resetPending
               ELSE /\ resetPending' = FALSE
                    /\ IF CacheValid(cachedApiKeys, now, lastFetchTime)
                       THEN /\ call' = [call EXCEPT ![c] =
                                  TryFrom([@ EXCEPT !.apiKeys = cachedApiKeys], 0)]
                            /\ hist' = [hist EXCEPT ![c] =
                                  IssuedFor(call'[c],
                                    [IdleHist EXCEPT
                                       !.stage = "loop",
                                       !.fresh = ~cachedApiKeys.isNull
                                                 /\ now - lastFetchTime < CACHE_DURATION])]
                       ELSE /\ call' = [call EXCEPT ![c] =
                                  [@ EXCEPT !.pc = "fetch", !.now = now, !.attempt = 1]]
                            /\ hist' = [hist EXCEPT ![c] =
                                  IssuedFor(call'[c],
                                    [IdleHist EXCEPT
                                       !.stage = "creds",
                                       !.fresh = ~cachedApiKeys.isNull
                                                 /\ now - lastFetchTime < CACHE_DURATION,
                                       !.fetches = 1])]

\* lines 268-289: the validated keys of a response, <<>> when the attempt throws
WorkingKeysOf(resp) ==
    IF resp.kind # "array" \/ FilterThrows(resp.items)
    THEN <<>>
    ELSE FilterWorkingKeys(resp.items)

\* a slip: an empty list of working keys is let through
AttemptFailsNotOnEmpty(resp, workingKeys) ==
    \/ resp.kind # "array"
    \/ FilterThrows(resp.items)

\* lines 287-289
AttemptFails(resp, workingKeys) ==
    \/ resp.kind # "array"
    \/ FilterThrows(resp.items)
    \/ Len(workingKeys) = 0

\* a slip: the wait does not grow with the attempts
BackoffDelayFlat(attempt) == RETRY_DELAY

\* line 304
BackoffDelay(attempt) == RETRY_DELAY * attempt

\* what the attempts of lines 253-296 can come to, over all responses: the
\* attempt throws, before the body of the response is read (line 272) or at
\* it, or it has the working keys of the response
FetchOutcomes ==
    {[fails |-> AttemptFails(r, WorkingKeysOf(r)), workingKeys |-> WorkingKeysOf(r),
      valid |-> r.kind = "array" /\ ~FilterThrows(r.items),
      atBody |-> r.kind \notin {"neterr", "http"}] :
       r \in Responses}

\* a slip: the keys are cached before the test of line 287
CacheWriteBeforeCheck(cache, outcome) ==
    IF outcome.valid THEN Array(outcome.workingKeys) ELSE cache

\* lines 287-292: the cache after the body of the response was looked at; it is
\* written past the throws only
CacheWrite(cache, outcome) ==
    IF outcome.fails THEN cache ELSE Array(outcome.workingKeys)

\* a slip: the time stamp of the cache is not written
StampWriteNever(last, t, outcome) == last

\* lines 287-293: the time stamp of the cache after the body of the response
\* was looked at; t is the time read at line 245
StampWrite(last, t, outcome) == IF outcome.fails THEN last ELSE t

\* a slip: a response without working keys is not tried again, the call gives
\* up at once
FetchFailedGivesUpOnEmpty(c, outcome) ==
    /\ IF call[c].attempt = MAX_RETRIES \/ outcome.valid
       THEN /\ call' = [call EXCEPT ![c] = Throw(IdleCall, MsgFetchFailed)]
            /\ hist' = [hist EXCEPT ![c] =
                  [Completed(@) EXCEPT !.lastFetch =
                     IF outcome.valid THEN "empty" ELSE "error"]]
       ELSE /\ call' = [call EXCEPT ![c] =
                  [@ EXCEPT !.pc = "backoff",
                            !.wakeAt = now + BackoffDelay(call[c].attempt)]]
            /\ hist' = [hist EXCEPT ![c] =
                  [Completed(@) EXCEPT !.lastFetch = "error"]]

\* the catch of lines 297-305: the last attempt throws on, the others wait
FetchFailed(c, outcome) ==
    /\ IF call[c].attempt = MAX_RETRIES
       THEN \* lines 298-301
            /\ call' = [call EXCEPT ![c] = Throw(IdleCall, MsgFetchFailed)]
            /\ hist' = [hist EXCEPT ![c] =
                  [Completed(@) EXCEPT !.lastFetch =
                     IF outcome.valid THEN "empty" ELSE "error"]]
       ELSE \* line 304
            /\ call' = [call EXCEPT ![c] =
                  [@ EXCEPT !.pc = "backoff",
                            !.wakeAt = now + BackoffDelay(call[c].attempt)]]
            /\ hist' = [hist EXCEPT ![c] =
                  [Completed(@) EXCEPT !.lastFetch =
                     IF outcome.valid THEN "empty" ELSE "error"]]

\* the await of line 257 resumes: fetch has thrown (so it does when the timer
\* of line 255 aborts it), or the head of the response is there, the timer is
\* cleared (line 266) and, the status being ok, the body is read (line 272)
FetchReturns(c, outcome) ==
    /\ NoneSettled
    /\ call[c].pc = "fetch"
    /\ UNCHANGED alone
    /\ UNCHANGED <<now, lastRequestTime, gatePassedAt, invalidPassed, resetSince,
                   resetPending>>
    /\ UNCHANGED <<cachedApiKeys, lastFetchTime>>
    /\ IF outcome.atBody
       THEN /\ call' = [call EXCEPT ![c].pc = "body"]
            /\ UNCHANGED hist
       ELSE FetchFailed(c, outcome)

\* the await of line 272 resumes: response.json() has thrown or given a value
JsonReturns(c, outcome) ==
    /\ NoneSettled
    /\ call[c].pc = "body"
    /\ outcome.atBody
    /\ UNCHANGED alone
    /\ UNCHANGED <<now, lastRequestTime, gatePassedAt, invalidPassed, resetSince,
                   resetPending>>
    /\ cachedApiKeys' = CacheWrite(cachedApiKeys, outcome)
    /\ lastFetchTime' = StampWrite(lastFetchTime, call[c].now, outcome)
    /\ IF ~outcome.fails
       THEN \* line 295, then the loop of line 329
            LET pool == Array(outcome.workingKeys)
            IN /\ call' = [call EXCEPT ![c] =
                     TryFrom([IdleCall EXCEPT !.apiKeys = pool], 0)]
               /\ hist' = [hist EXCEPT ![c] =
                     IssuedFor(call'[c],
                       [Completed(@) EXCEPT !.stage = "loop", !.fetches = 0,
                                            !.fetched = TRUE, !.lastFetch = "none"])]
       ELSE FetchFailed(c, outcome)

\* the timer of line 304 fires: the next attempt of the loop of line 252
BackoffEnds(c) ==
    /\ NoneSettled
    /\ call[c].pc = "backoff"
    /\ UNCHANGED alone
    /\ now >= call[c].wakeAt
    /\ call' = [call EXCEPT ![c] =
          [@ EXCEPT !.pc = "fetch", !.attempt = @ + 1, !.wakeAt = 0]]
    /\ hist' = [hist EXCEPT ![c] = IssuedFor(call'[c],
          [@ EXCEPT !.fetches = @ + 1, !.lastFetch = "none"])]
    /\ UNCHANGED <<cachedApiKeys, lastFetchTime, lastRequestTime, now,
                   gatePassedAt, invalidPassed, resetSince, resetPending>>

\* a slip: the test of line 401 is the wrong way round
ReplyErrorInverted(reply) ==
    IF ~Truthy(reply) \/ reply.t # "string" THEN MsgInvalidReply
    ELSE IF CleanReply(reply.c) # <<>> THEN MsgEmptyReply
    ELSE <<>>

\* a slip: the test of line 401 is missing
ReplyErrorNoEmptyCheck(reply) ==
    IF ~Truthy(reply) \/ reply.t # "string" THEN MsgInvalidReply
    ELSE <<>>

\* lines 384-405: what the reply makes of the attempt, an error thrown into the
\* inner catch or the cleaned reply returned
ReplyError(reply) ==
    IF ~Truthy(reply) \/ reply.t # "string" THEN MsgInvalidReply
    ELSE IF CleanReply(reply.c) = <<>> THEN MsgEmptyReply
    ELSE <<>>

\* a slip: the reply is returned as it came
ReplyValueRaw(reply) == reply.c

\* lines 390-405: the value returned for a reply that passed the checks
ReplyValue(reply) == CleanReply(reply.c)

\* what lines 378-405 make of the outcomes of the provider: the attempt fails
\* with keyError, thrown by the provider or at the checks of the reply, or it
\* returns cleanReply
Attempts ==
    {[outcome |-> o,
      failed |-> ~o.ok \/ ReplyError(o.reply) # <<>>,
      keyError |-> IF ~o.ok THEN o.error ELSE ReplyError(o.reply),
      cleanReply |-> IF o.ok /\ ReplyError(o.reply) = <<>>
                     THEN ReplyValue(o.reply) ELSE <<>>,
      accepted |-> /\ o.ok
                   /\ o.reply.t = "string"
                   /\ CleanReply(o.reply.c) # <<>>] :
       o \in ProviderOutcomes}

\* the controller and the timer of lines 375-376 belong to one iteration of
\* the loop: the timer is cleared at line 379, or it is left to fire on a
\* controller that the call has let go of
DropTimer(frame) == [frame EXCEPT !.timer = 0, !.aborted = FALSE]

\* the await of line 378 resumes with the provider's outcome
ProviderReturns(c, attempt) ==
    /\ NoneSettled
    /\ call[c].pc = "provider"
    /\ UNCHANGED alone
    /\ UNCHANGED <<cachedApiKeys, lastFetchTime, lastRequestTime, now,
                   gatePassedAt, invalidPassed, resetSince, resetPending>>
    /\ LET outcome == attempt.outcome
           frame == IF attempt.failed
                    THEN CatchKeyError(DropTimer(call[c]), attempt.keyError)
                    ELSE [DropTimer(call[c]) EXCEPT
                            !.pc = "done",
                            !.result = Returned(attempt.cleanReply)]
       IN /\ call' = [call EXCEPT ![c] = frame]
          /\ hist' = [hist EXCEPT ![c] =
                IssuedFor(frame,
                  [Completed(@) EXCEPT
                     !.fresh = FALSE,
                     !.fetched = FALSE,
                     !.asked = @ + 1,
                     !.failedSoFar = IF frame.pc = "done" THEN @
                                     ELSE @ /\ ~outcome.ok,
                     !.accepted = attempt.accepted,
                     !.last = IF frame.pc = "done" THEN outcome ELSE NoOutcome])]

\* a tick of the timer of line 376.  When the time is up its callback runs:
\* controller.abort() sets the flag of the signal.  The signal was not given to
\* generateContent (line 378) and nothing listens to it, so the call goes on
\* waiting.
RequestTimeout(frame) ==
    IF frame.pc = "provider" /\ frame.timer > 0
    THEN [frame EXCEPT !.timer = @ - 1, !.aborted = (frame.timer = 1)]
    ELSE frame

\* the frames are kept in the order in which their calls started: when the
\* first is free the one behind it moves up
Pack(frames, free) ==
    IF frames["c1"] = free
    THEN [c \in Calls |-> IF c = "c1" THEN frames["c2"] ELSE free]
    ELSE frames

\* the caller takes the settled promise; the frame is gone
Settle(c) ==
    /\ call[c].pc = "done"
    /\ UNCHANGED alone
    /\ call' = Pack([call EXCEPT ![c] = IdleCall], IdleCall)
    /\ hist' = Pack([hist EXCEPT ![c] = IdleHist], IdleHist)
    /\ UNCHANGED <<cachedApiKeys, lastFetchTime, lastRequestTime, now,
                   gatePassedAt, invalidPassed, resetSince, resetPending>>

\* refreshApiKeys, lines 440-444
refreshApiKeys ==
    /\ NoneSettled
    /\ UNCHANGED alone
    /\ cachedApiKeys' = Null
    /\ lastFetchTime' = 0
    /\ lastRequestTime' = 0
    /\ resetSince' = (gatePassedAt # 0)
    /\ resetPending' = TRUE
    /\ UNCHANGED <<now, call, hist, gatePassedAt, invalidPassed>>

\* the clock advances, and the timers that come due fire
Tick ==
    /\ NoneSettled
    /\ UNCHANGED alone
    /\ now < StartTime + MaxTicks
    /\ now' = now + 1
    \* a pass of the gate is forgotten once it is a whole interval old
    /\ IF now + 1 - gatePassedAt < MIN_REQUEST_INTERVAL
       THEN UNCHANGED <<gatePassedAt, invalidPassed, resetSince>>
       ELSE gatePassedAt' = 0 /\ resetSince' = FALSE /\ invalidPassed' = FALSE
    /\ call' = [c \in Calls |-> RequestTimeout(call[c])]
    /\ UNCHANGED <<cachedApiKeys, lastFetchTime, lastRequestTime, hist,
                   resetPending>>

Next ==
    \/ \E c \in Calls, q \in Questions : Respond(c, q)
    \/ \E c \in Calls, o \in FetchOutcomes : FetchReturns(c, o)
    \/ \E c \in Calls, o \in FetchOutcomes : JsonReturns(c, o)
    \/ \E c \in Calls : BackoffEnds(c)
    \/ \E c \in Calls, a \in Attempts : ProviderReturns(c, a)
    \/ \E c \in Calls : Settle(c)
    \/ refreshApiKeys
    \/ Tick

Spec == Init /\ [][Next]_vars

\* The clock runs and timers fire; a settled promise is taken; the fetch of
\* line 257 ends, by its answer or by its abort signal (line 264).  Nothing
\* makes the provider answer, and nothing ends the reading of the body (line
\* 272): the timer that would abort it was cleared at line 266.
FairSpec ==
    /\ Init /\ [][Next]_vars
    /\ WF_vars(Tick)
    /\ \A c \in Calls :
         /\ WF_vars(BackoffEnds(c))
         /\ WF_vars(Settle(c))
         /\ WF_vars(\E o \in FetchOutcomes : FetchReturns(c, o))

(***************************************************************************)
(* sanitizeInput taken alone: it is applied once to a value, a string     *)
(* around the maximal length or something that is not a string.            *)
(***************************************************************************)
Around == 1

Affixes ==
    { <<>>, <<" ">>, <<"x", "<", "&">>, <<"\"", "'", ">">>,
      <<"D", "a", "T", "a", ":">>,
      <<"j", "a", "v", "a", "<", "s", "c", "r", "i", "p", "t", ":">>,
      <<"J", "a", "v", "a", "j", "a", "v", "a", "s", "c", "r", "i", "p", "t", ":",
        "S", "c", "r", "i", "p", "t", ":">>,
      <<"d", "a", "D", "A", "T", "A", ":", "t", "a", ":">> }

FillLengths(max) == {0} \cup ((max - Around)..(max + Around))

SanitizeArgs ==
    {Undefined, Num(<<"7">>), Num(<<"0">>)}
    \cup {Str(p \o Fill(n, "a") \o q) :
            p \in Affixes, q \in Affixes, n \in FillLengths(MAX_INPUT_LENGTH)}

SanitizeInit ==
    /\ Init!1 /\ Init!2 /\ Init!3 /\ Init!4 /\ Init!5
    /\ Init!6 /\ Init!7 /\ Init!8 /\ Init!9 /\ Init!10 /\ Init!13
    /\ arg \in SanitizeArgs
    /\ results = <<>>

NotAlone == <<cachedApiKeys, lastFetchTime, lastRequestTime, now, call, hist,
              gatePassedAt, invalidPassed, resetSince, resetPending, appVars>>

\* const sanitizedMessage = sanitizeInput(userMessage), line 320
Sanitize ==
    /\ results = <<>>
    /\ results' = <<sanitizeInput(arg)>>
    /\ UNCHANGED <<arg, NotAlone>>

SanitizeSpec == SanitizeInit /\ [][Sanitize]_vars

(***************************************************************************)
(* The cleaning of the reply taken alone: it is applied to a reply, a      *)
(* string around the maximal length, and then to its own result.           *)
(***************************************************************************)
ReplyAffixes ==
    { <<>>, <<" ">>, <<"*", "*", "b", "*">>, <<"#", "#", " ">>,
      <<"#", Backtick, " ", "x">>, <<"\n", "\n", "y", "\n">>,
      <<"<", "b", ">">>, <<" ", "x">> }

CleanArgs ==
    {Str(p \o Fill(n, "a") \o q) :
       p \in ReplyAffixes, q \in ReplyAffixes, n \in FillLengths(MAX_REPLY_LENGTH)}

CleanInit ==
    /\ Init!1 /\ Init!2 /\ Init!3 /\ Init!4 /\ Init!5
    /\ Init!6 /\ Init!7 /\ Init!8 /\ Init!9 /\ Init!10 /\ Init!13
    /\ arg \in CleanArgs
    /\ results = <<>>

\* lines 390-399 applied to the reply
Clean ==
    /\ results = <<>>
    /\ results' = <<CleanReply(arg.c)>>
    /\ UNCHANGED <<arg, NotAlone>>

\* lines 390-399 applied to a cleaned reply
CleanAgain ==
    /\ Len(results) = 1
    /\ results' = Append(results, CleanReply(results[1]))
    /\ UNCHANGED <<arg, NotAlone>>

CleanNext == Clean \/ CleanAgain

CleanSpec == CleanInit /\ [][CleanNext]_vars

(***************************************************************************)
(* The key of a record taken alone: the filter of fetchApiKeys takes it    *)
(* from the record (line 281) and, for a record that the filter lets       *)
(* through, the loop over the pool takes it again (line 331).              *)
(***************************************************************************)
KeyValues ==
    {Undefined, Str(<<>>), Str(Key1), Str(Key2), Str(KeyShort), Str(KeyBadChar)}

CredentialArgs ==
    {Rec(stat, keySp, key, name) :
       stat \in {Working, NotWorking}, keySp \in KeyValues, key \in KeyValues,
       name \in {Str(<<"Key 1">>), Undefined}}

KeyInit ==
    /\ Init!1 /\ Init!2 /\ Init!3 /\ Init!4 /\ Init!5
    /\ Init!6 /\ Init!7 /\ Init!8 /\ Init!9 /\ Init!10 /\ Init!13
    /\ arg \in CredentialArgs
    /\ results = <<>>

\* const apiKey = key['Api Key '] || key['Api Key'], line 281
FilterKey ==
    /\ results = <<>>
    /\ results' = <<SelectKey(arg)>>
    /\ UNCHANGED <<arg, NotAlone>>

\* const apiKey = keyInfo['Api Key '] || keyInfo['Api Key'], line 331, for a
\* record of the pool
LoopKey ==
    /\ Len(results) = 1
    /\ IsWorkingKey(arg)
    /\ results' = Append(results, SelectKey(arg))
    /\ UNCHANGED <<arg, NotAlone>>

KeyNext == FilterKey \/ LoopKey

KeySpec == KeyInit /\ [][KeyNext]_vars

(***************************************************************************)
(* The App component, lines 454-659, taken alone: the handlers of the      *)
(* microphone button, of the SpeechRecognition object and of the           *)
(* utterance, and sendToBackend, whose call of getRealGeminiResponse       *)
(* returns a reply or throws.  The handlers run when the browser delivers  *)
(* their events: after start() the start event or an error, results while  *)
(* the recognition is active, and an end event after an error, after       *)
(* stop() and when the speech is over.                                     *)
(***************************************************************************)
Transcripts == {<<>>, <<" ">>, <<"h", "i">>}

RecognitionErrors == {"no-speech", "audio-capture", "not-allowed", "aborted", "network"}

\* what the call of getRealGeminiResponse comes to: a cleaned reply, or one
\* of the errors of its outer catch
BackendOutcomes ==
    {Returned(<<"H", "i">>)}
    \cup {Raised(m) : m \in {OutUnavailable, OutNetwork, OutConfiguration, OutGeneric}}

NotApp == <<cachedApiKeys, lastFetchTime, lastRequestTime, now, call, hist,
            gatePassedAt, invalidPassed, resetSince, resetPending, arg, results>>

MsgNotHeard == <<"I did not hear anything. Please try again.">>
MsgStartFailed == <<"Failed to start speech recognition. Please try again.">>

\* the switch of lines 582-601
RecognitionErrorMessage(kind) ==
    CASE kind = "no-speech" -> <<"No speech was detected. Please try again.">>
      [] kind = "audio-capture" ->
           <<"No microphone was found. Please check your microphone.">>
      [] kind = "not-allowed" ->
           <<"Microphone access was denied. Please allow microphone access and try again.">>
      [] OTHER -> <<"Error: ", kind>>

\* speechSynthesis.cancel(), lines 473 and 624: an utterance that is queued or
\* spoken is dropped, its handlers are still to be told
Cancel(u) == IF u = "none" THEN "none" ELSE "cancelled"

\* startListening, lines 620-641; start() throws when the recognition has not
\* ended yet
startListening ==
    /\ utterance' = Cancel(utterance)
    /\ transcript' = <<>>
    /\ response' = <<>>
    /\ shouldProcess' = TRUE
    /\ IF recognition = "inactive"
       THEN /\ recognition' = "starting"
            /\ error' = <<>>
            /\ UNCHANGED status
       ELSE /\ recognition' = recognition
            /\ error' = MsgStartFailed
            /\ status' = "error"
    /\ UNCHANGED <<lastTranscript, backend>>

\* stopListening, lines 644-650
stopListening ==
    /\ lastTranscript' = transcript
    /\ UNCHANGED <<status, transcript, response, error, shouldProcess, recognition,
                   backend, utterance>>

\* a slip: the click is not held back while a reply is waited for or spoken
handleMicClickAnyStatus ==
    /\ IF status = "listening" THEN stopListening ELSE startListening
    /\ UNCHANGED NotApp

\* handleMicClick, lines 653-659
handleMicClick ==
    /\ status \in {"listening", "idle", "error"}
    /\ IF status = "listening" THEN stopListening ELSE startListening
    /\ UNCHANGED NotApp

\* recognition.onstart, lines 537-540
recognition_onstart ==
    /\ recognition = "starting"
    /\ recognition' = "active"
    /\ status' = "listening"
    /\ error' = <<>>
    /\ UNCHANGED <<transcript, response, shouldProcess, lastTranscript, backend,
                   utterance>>
    /\ UNCHANGED NotApp

\* recognition.onresult, lines 542-561
recognition_onresult(currentText) ==
    /\ recognition = "active"
    /\ transcript' = currentText
    /\ lastTranscript' = currentText
    /\ UNCHANGED <<status, response, error, shouldProcess, recognition, backend,
                   utterance>>
    /\ UNCHANGED NotApp

\* sendToBackend up to its await, lines 511-516
sendToBackend ==
    /\ status' = "processing"
    /\ backend' = backend + 1

\* recognition.onend, lines 563-577
recognition_onend ==
    /\ recognition \in {"active", "ending"}
    /\ recognition' = "inactive"
    /\ shouldProcess' = FALSE
    /\ IF shouldProcess
       THEN IF Trim(lastTranscript) # <<>>
            THEN sendToBackend /\ UNCHANGED response
            ELSE /\ status' = "idle"
                 /\ response' = MsgNotHeard
                 /\ UNCHANGED backend
       ELSE /\ status' = "idle"
            /\ UNCHANGED <<response, backend>>
    /\ UNCHANGED <<transcript, error, lastTranscript, utterance>>
    /\ UNCHANGED NotApp

\* recognition.onerror, lines 579-605; the end event follows
recognition_onerror(kind) ==
    /\ recognition \in {"starting", "active"}
    /\ recognition' = "ending"
    /\ IF kind = "aborted"
       THEN status' = "idle" /\ UNCHANGED <<response, error>>
       ELSE /\ status' = "error"
            /\ error' = RecognitionErrorMessage(kind)
            /\ response' = IF kind = "no-speech" THEN MsgNotHeard ELSE response
    /\ UNCHANGED <<transcript, shouldProcess, lastTranscript, backend, utterance>>
    /\ UNCHANGED NotApp

\* speakResponse up to speak(), lines 469-507
speakResponse == utterance' = "queued"

\* sendToBackend from its await on, lines 516-525: the reply is shown and
\* spoken, or the error is shown
BackendReturns(outcome) ==
    /\ backend > 0
    /\ backend' = backend - 1
    /\ IF outcome.ok
       THEN /\ response' = outcome.value
            /\ speakResponse
            /\ UNCHANGED <<status, error>>
       ELSE /\ error' = outcome.error
            /\ status' = "error"
            /\ UNCHANGED <<response, utterance>>
    /\ UNCHANGED <<transcript, shouldProcess, lastTranscript, recognition>>
    /\ UNCHANGED NotApp

\* utterance.onstart, lines 493-495
utterance_onstart ==
    /\ utterance = "queued"
    /\ utterance' = "speaking"
    /\ status' = "speaking"
    /\ UNCHANGED <<transcript, response, error, shouldProcess, lastTranscript,
                   recognition, backend>>
    /\ UNCHANGED NotApp

\* utterance.onend, lines 497-499
utterance_onend ==
    /\ utterance = "speaking"
    /\ utterance' = "none"
    /\ status' = "idle"
    /\ UNCHANGED <<transcript, response, error, shouldProcess, lastTranscript,
                   recognition, backend>>
    /\ UNCHANGED NotApp

\* utterance.onerror, lines 501-504
utterance_onerror ==
    /\ utterance \in {"queued", "speaking", "cancelled"}
    /\ utterance' = "none"
    /\ status' = "idle"
    /\ UNCHANGED <<transcript, response, error, shouldProcess, lastTranscript,
                   recognition, backend>>
    /\ UNCHANGED NotApp

AppNext ==
    \/ handleMicClick
    \/ recognition_onstart
    \/ \E currentText \in Transcripts : recognition_onresult(currentText)
    \/ recognition_onend
    \/ \E kind \in RecognitionErrors : recognition_onerror(kind)
    \/ \E outcome \in BackendOutcomes : BackendReturns(outcome)
    \/ utterance_onstart
    \/ utterance_onend
    \/ utterance_onerror

AppSpec == Init /\ [][AppNext]_vars

(***************************************************************************)
(* Properties.                                                             *)
(***************************************************************************)
\* the call c has ended after a provider call with every credential of its pool
TriedAllKeys(c) ==
    /\ call[c].pc = "done"
    /\ hist[c].stage = "loop"
    /\ hist[c].asked >= 1
    /\ hist[c].asked = Len(call[c].apiKeys.keys)

\* the step starts the call c
Starts(c) == call[c].pc = "idle" /\ call'[c].pc # "idle"

\* the call c has issued no network call
NoNetworkCall(h, frame) ==
    /\ h.fetches = 0
    /\ ~h.fetched
    /\ h.asked = 0
    /\ frame.pc \notin {"fetch", "body", "backoff", "provider"}

\* C1 as claimed: when the provider call failed for each credential but the
\* last and succeeded for the last, the call returns the cleaned reply of the
\* last provider call.
C1_AsClaimed ==
    \A c \in Calls :
      (TriedAllKeys(c) /\ hist[c].failedSoFar /\ hist[c].last.ok)
        => call[c].result = Returned(CleanReply(hist[c].last.reply.c))

\* C1, amended: when the provider call failed for each credential but the last
\* and succeeded for the last with a reply that is a string whose cleaned form
\* is not empty, the call returns that cleaned form and raises no error.
C1_LastKeySucceeds ==
    \A c \in Calls :
      (/\ TriedAllKeys(c) /\ hist[c].failedSoFar /\ hist[c].last.ok
       /\ hist[c].last.reply.t = "string"
       /\ CleanReply(hist[c].last.reply.c) # <<>>)
        => call[c].result = Returned(CleanReply(hist[c].last.reply.c))

C1_Witness ==
    \E c \in Calls :
      /\ TriedAllKeys(c) /\ hist[c].failedSoFar /\ hist[c].last.ok
      /\ hist[c].asked = 2
      /\ call[c].result = Returned(<<"H", "i">>)
      /\ hist[c].last.reply.c # <<"H", "i">>

\* C2: when the provider call failed for every credential of the pool, the
\* call fails with the classification of the error of the last credential.
C2_LastErrorClassified ==
    \A c \in Calls :
      (TriedAllKeys(c) /\ hist[c].failedSoFar /\ ~hist[c].last.ok)
        => call[c].result = Raised(ClassifyError(hist[c].last.error))

C2_Witness ==
    \E c \in Calls :
      /\ TriedAllKeys(c) /\ hist[c].failedSoFar /\ ~hist[c].last.ok
      /\ hist[c].asked = 2
      /\ Includes(hist[c].last.error, "quota")
      /\ call[c].result = Raised(OutUnavailable)

\* C3: a call started less than the minimum interval after a call passed the
\* gate, with no refreshApiKeys in between, is rejected at the gate: it ends at
\* once with an error, leaves the time stamp alone and issues no network call.
C3_GateRejects ==
    [][\A c \in Calls :
         (Starts(c) /\ now - gatePassedAt < MIN_REQUEST_INTERVAL /\ ~resetSince)
           => /\ call'[c].pc = "done"
              /\ call'[c].result = Raised(OutGeneric)
              /\ hist'[c].stage = "gate"
              /\ NoNetworkCall(hist'[c], call'[c])
              /\ lastRequestTime' = lastRequestTime]_vars

C3_Witness ==
    \E c \in Calls :
      /\ call[c].pc = "done" /\ hist[c].stage = "gate"
      /\ ~resetSince
      /\ now - gatePassedAt = MIN_REQUEST_INTERVAL - 1
      /\ now > gatePassedAt

\* C4 as claimed: refreshApiKeys leaves the time stamp of the rate gate
\* unchanged, and a call started less than the minimum interval after a call
\* passed the gate is rejected also when refreshApiKeys was called in between.
C4_AsClaimed ==
    [][/\ refreshApiKeys => lastRequestTime' = lastRequestTime
       /\ \A c \in Calls :
            (Starts(c) /\ now - gatePassedAt < MIN_REQUEST_INTERVAL)
              => hist'[c].stage = "gate"]_vars

\* C5 as claimed: after refreshApiKeys, the next fetchApiKeys call that starts
\* issues a network fetch.
C5_AsClaimed ==
    [][\A c \in Calls :
         (Starts(c) /\ hist'[c].stage \in {"creds", "loop"} /\ resetPending)
           => call'[c].pc = "fetch" /\ hist'[c].fetches = 1]_vars

\* C6: fetchApiKeys called while the cache holds a pool whose age is below the
\* freshness window returns that pool and issues no network request.
C6_FreshCacheHit ==
    [][\A c \in Calls :
         (/\ Starts(c) /\ hist'[c].stage \in {"creds", "loop"}
          /\ ~cachedApiKeys.isNull
          /\ now - lastFetchTime < CACHE_DURATION)
           => /\ hist'[c].stage = "loop"
              /\ call'[c].apiKeys = cachedApiKeys
              /\ hist'[c].fetches = 0 /\ ~hist'[c].fetched
              /\ call'[c].pc \notin {"fetch", "body", "backoff"}
              /\ cachedApiKeys' = cachedApiKeys
              /\ lastFetchTime' = lastFetchTime]_vars

C6_Witness ==
    \E c \in Calls :
      /\ hist[c].fresh /\ hist[c].stage = "loop" /\ call[c].pc = "provider"
      /\ call[c].apiKeys = cachedApiKeys
      /\ now - lastFetchTime = CACHE_DURATION - 1

\* C7: fetchApiKeys called while the cache holds no pool younger than the
\* freshness window issues a network fetch; the pool it returns is one it
\* fetched, and when every attempt fails the call fails.
C7_StaleCacheRefetched ==
    \A c \in Calls :
      (hist[c].stage \in {"creds", "loop"} /\ hist[c].asked = 0 /\ ~hist[c].fresh)
        => /\ hist[c].fetched \/ hist[c].fetches >= 1
           /\ hist[c].stage = "loop" => hist[c].fetched
           /\ (hist[c].stage = "creds" /\ call[c].pc = "done")
                => /\ ~call[c].result.ok
                   /\ hist[c].fetches = MAX_RETRIES
                   /\ call[c].apiKeys = Null

\* the cache holds a pool that is too old while the call fetches, and: the call
\* has the pool of its own fetch, or it has failed after all its attempts
C7_Witness ==
    \E c \in Calls :
      /\ call[c].pc = "fetch" /\ ~hist[c].fresh
      /\ ~cachedApiKeys.isNull
      /\ call[c].now - lastFetchTime >= CACHE_DURATION

\* C8: every credential of the cached pool and of a pool that fetchApiKeys
\* returned has Status "Working", a key of the required format (prefix, length
\* 39, allowed characters) and a Name that is a non-empty string.
EligibleChars == Letters \cup Digits \cup {"_", "-"}

Eligible(rec) ==
    LET key == SelectKey(rec)
    IN /\ ~rec.isNull
       /\ rec.Status = [t |-> "string", c |-> <<"Working">>]
       /\ key.t = "string"
       /\ Len(key.c) = 39
       /\ SubSeq(key.c, 1, 6) = <<"A", "I", "z", "a", "S", "y">>
       /\ \A k \in 1..39 : key.c[k] \in EligibleChars
       /\ rec.Name.t = "string"
       /\ rec.Name.c # <<>>

Pools == {cachedApiKeys.keys} \cup {call[c].apiKeys.keys : c \in Calls}

Credentials == UNION {{pool[k] : k \in 1..Len(pool)} : pool \in Pools}

C8_PoolsValidated ==
    \A rec \in Credentials : Eligible(rec)

C8_Witness ==
    /\ ~cachedApiKeys.isNull
    /\ Len(cachedApiKeys.keys) = MaxRecords
    /\ \E c \in Calls : call[c].pc = "provider" /\ call[c].apiKeys = cachedApiKeys

\* C9: the cache holds no pool or a pool of at least one credential, and
\* fetchApiKeys never returns an empty pool.
C9_NoEmptyPool ==
    /\ cachedApiKeys.isNull \/ Len(cachedApiKeys.keys) >= 1
    /\ \A c \in Calls :
         hist[c].stage = "loop"
           => ~call[c].apiKeys.isNull /\ Len(call[c].apiKeys.keys) >= 1

\* a response without working keys has come and nothing was cached
C9_Witness ==
    \E c \in Calls :
      /\ hist[c].lastFetch = "empty"
      /\ call[c].pc = "done"
      /\ cachedApiKeys.isNull

\* C10: every error the call raises carries one of four fixed messages, and no
\* fragment of an internal error, of a provider error or of a key is in it.
UserSafeMessages ==
    { <<"Service temporarily unavailable. Please try again later.">>,
      <<"Network error. Please check your connection.">>,
      <<"Service configuration error. Please try again later.">>,
      <<"Unable to process request. Please try again.">> }

Fragments(message) == {message[k] : k \in 1..Len(message)}

InternalFragments ==
    UNION {Fragments(m) : m \in ProviderErrors \cup
             {MsgRateGate, MsgInvalidQuestion, MsgFetchFailed, MsgInvalidReply,
              MsgEmptyReply, MsgAllFailed}}

C10_ErrorsUserSafe ==
    \A c \in Calls :
      (call[c].pc = "done" /\ ~call[c].result.ok)
        => /\ call[c].result.error \in UserSafeMessages
           /\ Fragments(call[c].result.error) \cap InternalFragments = {}

C10_Witness ==
    \E c \in Calls :
      /\ call[c].pc = "done" /\ ~call[c].result.ok
      /\ hist[c].asked >= 1 /\ ~hist[c].last.ok
      /\ Includes(hist[c].last.error, "API_KEY")
      /\ call[c].result.error = OutConfiguration

\* the errors thrown in each category of failure: at the rate gate (line 315),
\* at the validation of the input (line 322), by fetchApiKeys (line 300) and in
\* the loop over the keys (lines 378-417)
Categories == {"gate", "input", "creds", "loop"}

CategoryErrors(category) ==
    CASE category = "gate" -> {MsgRateGate}
      [] category = "input" -> {MsgInvalidQuestion}
      [] category = "creds" -> {MsgFetchFailed}
      [] OTHER -> ProviderErrors \cup {MsgInvalidReply, MsgEmptyReply, MsgAllFailed}

\* the messages that come out of the outer catch for a category
Surfaces(category) == {ClassifyError(m) : m \in CategoryErrors(category)}

\* C11 as claimed: the message of a failed call is one that no other category
\* of failure (rate gate, input validation, credential fetch, provider)
\* surfaces.
C11_AsClaimed ==
    \A c \in Calls :
      (call[c].pc = "done" /\ ~call[c].result.ok)
        => \A other \in Categories \ {hist[c].stage} :
             call[c].result.error \notin Surfaces(other)

\* C12 as claimed: when fetchApiKeys fails inside the call, the call fails
\* with the error of fetchApiKeys unchanged, not with a message of another
\* category.
C12_AsClaimed ==
    \A c \in Calls :
      (call[c].pc = "done" /\ hist[c].stage = "creds")
        => /\ call[c].result = Raised(MsgFetchFailed)
           /\ call[c].result.error \notin {OutNetwork, OutUnavailable,
                                           OutConfiguration, OutGeneric}

\* C13 as claimed: once a provider call of the call has returned a reply, no
\* provider call is made with a later credential.
C13_AsClaimed ==
    \A c \in Calls : call[c].pc = "provider" => hist[c].failedSoFar

\* C13, amended: once a provider call of the call has returned a reply that
\* is a string whose cleaned form is not empty, the call has ended with that
\* cleaned form; no provider call is made with a later credential.
C13_StopsAtAcceptedReply ==
    \A c \in Calls :
      hist[c].accepted
        => /\ call[c].pc = "done"
           /\ call[c].result = Returned(CleanReply(hist[c].last.reply.c))

\* the call has returned on its first credential and left a later one alone
C13_Witness ==
    \E c \in Calls :
      /\ hist[c].accepted
      /\ hist[c].asked = 1
      /\ call[c].i = 0
      /\ Len(call[c].apiKeys.keys) >= 2

\* C14 as claimed: a provider call is ended by its timeout, so that the call
\* completes also when the provider never answers: once the timeout of a
\* provider call has fired, the call does not go on waiting for that provider
\* call.
C14_AsClaimed ==
    \A c \in Calls :
      (call[c].pc = "provider" /\ call[c].aborted)
        ~> ~(call[c].pc = "provider" /\ call[c].aborted)

\* C15: the sanitized message has none of the characters < > " ' & and at most
\* 1000 characters, and what is not a string sanitizes to the empty string.
C15_SanitizedIsSafe ==
    results # <<>>
      => /\ \A k \in 1..Len(results[1]) :
              results[1][k] \notin {"<", ">", "\"", "'", "&"}
         /\ Len(results[1]) <= 1000
         /\ arg.t # "string" => results[1] = <<>>

\* a string of more than 1000 characters with several of the characters in it
\* was cut to 1000
C15_Witness ==
    /\ results # <<>>
    /\ arg.t = "string"
    /\ Len(arg.c) > 1000
    /\ Cardinality({k \in 1..Len(arg.c) : arg.c[k] \in {"<", ">", "\"", "'", "&"}}) >= 2
    /\ Len(results[1]) = 1000

\* C16 as claimed: cleaning the cleaned reply gives the cleaned reply.
C16_AsClaimed ==
    Len(results) = 2 => results[2] = results[1]

\* C17: the cleaned reply is the first min(L, 500) characters of the stripped
\* and trimmed reply, L being the length of that.
C17_CutAt500 ==
    results # <<>>
      => LET stripped == StripReply(arg.c)
         IN /\ Len(results[1]) = IF Len(stripped) > 500 THEN 500 ELSE Len(stripped)
            /\ \A k \in 1..Len(results[1]) : results[1][k] = stripped[k]

\* a reply whose stripped form is longer than 500 came out with 500 characters
C17_Witness ==
    /\ results # <<>>
    /\ Len(StripReply(arg.c)) > 500
    /\ Len(StripReply(arg.c)) < Len(arg.c)
    /\ Len(results[1]) = 500

\* the call c is suspended at a network call or at the timer of the backoff
Suspended(c) == call[c].pc \in {"fetch", "body", "backoff", "provider"}

\* C18: a call rejected at the rate gate leaves the time stamp of the gate, the
\* cached pool and the time stamp of the cache as they were.
C18_RejectionChangesNothing ==
    [][\A c \in Calls :
         (Starts(c) /\ hist'[c].stage = "gate")
           => /\ lastRequestTime' = lastRequestTime
              /\ cachedApiKeys' = cachedApiKeys
              /\ lastFetchTime' = lastFetchTime]_vars

\* a call was rejected after the time stamp was written, with a pool cached
C18_Witness ==
    \E c \in Calls :
      /\ call[c].pc = "done" /\ hist[c].stage = "gate"
      /\ lastRequestTime > 0
      /\ lastRequestTime < now
      /\ ~cachedApiKeys.isNull

\* C19: a call that starts while another call is suspended passes the gate
\* only when no call has passed it less than the minimum interval before,
\* refreshApiKeys in between apart.
C19_OverlapRespectsGate ==
    [][\A c \in Calls :
         (/\ Starts(c) /\ hist'[c].stage # "gate"
          /\ \E d \in Calls \ {c} : Suspended(d))
           => \/ now - gatePassedAt >= MIN_REQUEST_INTERVAL
              \/ resetSince]_vars

\* two calls are under way: the first, which started at call["c1"].now, still
\* fetches the keys, the second has passed the gate just now, the minimum
\* interval or more later
C19_Witness ==
    /\ call["c1"].pc \in {"fetch", "body", "backoff"}
    /\ Suspended("c2")
    /\ gatePassedAt = now
    /\ lastRequestTime = now
    /\ now - call["c1"].now >= MIN_REQUEST_INTERVAL

\* C20: the credentials are attempted in the order of the pool, each at most
\* once; an attempt fails when the provider call fails or its reply is
\* refused; a failed attempt with a credential that is not the last is followed
\* by the attempt with the next credential, and with the last one by the
\* failure of the call, which so comes only after every credential was
\* attempted; an attempt that does not fail ends the call.
C20_InOrderToTheLast ==
    [][\A c \in Calls :
         (call[c].pc = "provider" /\ hist'[c].asked = hist[c].asked + 1)
           => /\ call[c].i = hist[c].asked
              /\ IF hist'[c].accepted
                 THEN call'[c].pc = "done" /\ call'[c].result.ok
                 ELSE IF call[c].i < Len(call[c].apiKeys.keys) - 1
                 THEN /\ call'[c].pc = "provider"
                      /\ call'[c].i = call[c].i + 1
                      /\ call'[c].apiKeys = call[c].apiKeys
                 ELSE /\ call'[c].pc = "done" /\ ~call'[c].result.ok
                      /\ hist'[c].asked = Len(call[c].apiKeys.keys)]_vars

\* the second credential of a pool is being attempted after the first failed
C20_Witness ==
    \E c \in Calls :
      /\ call[c].pc = "provider"
      /\ call[c].i = 1
      /\ hist[c].asked = 1
      /\ ~hist[c].accepted
      /\ Len(call[c].apiKeys.keys) >= 2

\* C21 as claimed: at every moment at most one network call, fetch of the
\* keys or provider call, is in flight, whatever calls are made.
C21_AsClaimed ==
    hist["c1"].inFlight + hist["c2"].inFlight <= 1

\* C21, amended: at every moment each call has at most one network call in
\* flight, the one it is waiting for; calls that overlap have one each.
C21_OneInFlightPerCall ==
    \A c \in Calls :
      /\ hist[c].inFlight \in {0, 1}
      /\ hist[c].inFlight = 1 <=> call[c].pc \in {"fetch", "body", "provider"}

\* two calls overlap: the first waits for the provider, the second, which
\* passed the gate later, for the fetch of the keys
C21_Witness ==
    /\ call["c1"].pc = "provider" /\ hist["c1"].inFlight = 1
    /\ call["c2"].pc = "fetch" /\ hist["c2"].inFlight = 1
    /\ call["c2"].now > call["c1"].now

\* the call c is in fetchApiKeys: at the fetch, at the body of the response
\* or at the wait before the next attempt
InFetchApiKeys(c) == call[c].pc \in {"fetch", "body", "backoff"}

\* C22 as claimed: a fetchApiKeys that found no fresh cache issues at least
\* one and at most MAX_RETRIES fetches and always ends, with the pool of its
\* first good attempt or with its error after MAX_RETRIES failed ones; so
\* each of its attempts ends, and a call does not stay at the body of a
\* response for ever.
C22_AsClaimed ==
    \A c \in Calls :
      (call[c].pc = "body") ~> (call[c].pc # "body")

C24_FailureLeavesCache ==
    [][\A c \in Calls :
         (/\ InFetchApiKeys(c)
          /\ call'[c] # call[c]
          /\ hist'[c].stage # "loop")
           => /\ cachedApiKeys' = cachedApiKeys
              /\ lastFetchTime' = lastFetchTime]_vars

\* a call has failed on a response without working keys while a pool was
\* cached: the pool is still there
C24_Witness ==
    \E c \in Calls :
      /\ call[c].pc = "done"
      /\ hist[c].stage = "creds"
      /\ hist[c].lastFetch = "empty"
      /\ ~cachedApiKeys.isNull
      /\ Len(cachedApiKeys.keys) >= 1
      /\ lastFetchTime > 0

\* C25: the cached pool and its time stamp are replaced together: no pool is
\* cached exactly when the time stamp is 0, and a step that changes one of
\* the two is refreshApiKeys, which clears both, or the step of a call that
\* writes the pool it fetched and the time it read when its fetchApiKeys
\* started.
C25_ReplacedTogether ==
    /\ [](cachedApiKeys.isNull <=> lastFetchTime = 0)
    /\ [][(cachedApiKeys' # cachedApiKeys \/ lastFetchTime' # lastFetchTime)
            => \/ cachedApiKeys' = Null /\ lastFetchTime' = 0
               \/ \E c \in Calls :
                    /\ call[c].pc = "body"
                    /\ hist'[c].fetched
                    /\ cachedApiKeys' = call'[c].apiKeys
                    /\ ~cachedApiKeys'.isNull
                    /\ lastFetchTime' = call[c].now
                    /\ lastFetchTime' > 0]_vars

\* a call has written the pool it fetched together with the time at which its
\* fetchApiKeys started, which lies before the time of the write
C25_Witness ==
    \E c \in Calls :
      /\ call[c].pc = "provider"
      /\ hist[c].fetched /\ ~hist[c].fresh
      /\ hist[c].asked = 0
      /\ cachedApiKeys = call[c].apiKeys
      /\ lastFetchTime > StartTime
      /\ lastFetchTime < now

\* C26: a call whose message sanitizes to the empty string ends at once with
\* an error, at the validation of the input when it has passed the rate gate;
\* it issues no fetch of the keys and no provider call and leaves the cached
\* pool and its time stamp as they were.
C26_EmptyMessageRejected ==
    [][\A c \in Calls, q \in Questions :
         (Respond(c, q) /\ q.sanitizedMessage = <<>>)
           => /\ call'[c].pc = "done"
              /\ ~call'[c].result.ok
              /\ ~RateLimited(now, lastRequestTime)
                   => /\ hist'[c].stage = "input"
                      /\ call'[c].result = Raised(ClassifyError(MsgInvalidQuestion))
              /\ NoNetworkCall(hist'[c], call'[c])
              /\ hist'[c].inFlight = 0
              /\ cachedApiKeys' = cachedApiKeys
              /\ lastFetchTime' = lastFetchTime]_vars

\* a call has passed the gate just now and was refused for its message, with
\* a pool in the cache
C26_Witness ==
    \E c \in Calls :
      /\ call[c].pc = "done"
      /\ hist[c].stage = "input"
      /\ lastRequestTime = now
      /\ ~cachedApiKeys.isNull
      /\ now - lastFetchTime < CACHE_DURATION

\* the word occurs in s, in some letter case
ContainsCI(s, word) ==
    \E k \in 1..(Len(s) - Len(word) + 1) :
      \A j \in 1..Len(word) : ToLower(s[k + j - 1]) = word[j]

\* C27 as claimed: the sanitized message has no occurrence of javascript: or
\* of data: in any letter case, whatever the input, also when the prefix comes
\* together only once another piece was removed.
C27_AsClaimed ==
    results # <<>>
      => /\ ~ContainsCI(results[1], JavascriptScheme)
         /\ ~ContainsCI(results[1], DataScheme)

\* C28 as claimed: from a record that has both spellings of the key field,
\* 'Api Key ' and 'Api Key', the key taken, by the filter of fetchApiKeys and
\* by the loop over the pool, is the value of 'Api Key', the name without the
\* blank at its end.
C28_AsClaimed ==
    (arg.ApiKeySp.t # "undefined" /\ arg.ApiKey.t # "undefined")
      => \A k \in 1..Len(results) : results[k] = arg.ApiKey

\* C29: the call never returns the empty string: what it returns is the
\* cleaned form, not empty, of the reply of its last provider call, and a call
\* whose last provider call gave no reply, the empty string or a reply whose
\* cleaned form is empty has failed.
C29_NeverReturnsEmpty ==
    \A c \in Calls :
      call[c].pc = "done"
        => /\ call[c].result.ok
                => /\ call[c].result.value # <<>>
                   /\ hist[c].last.ok
                   /\ hist[c].last.reply.t = "string"
                   /\ call[c].result.value = CleanReply(hist[c].last.reply.c)
           /\ (/\ hist[c].last.ok
               /\ \/ hist[c].last.reply.t # "string"
                  \/ hist[c].last.reply.c = <<>>
                  \/ CleanReply(hist[c].last.reply.c) = <<>>)
                => /\ ~call[c].result.ok
                   /\ call[c].result.value = <<>>

\* the provider has answered the last key with a reply that is not empty and
\* whose cleaned form is: the call has failed
C29_Witness ==
    \E c \in Calls :
      /\ call[c].pc = "done"
      /\ hist[c].last.ok
      /\ hist[c].last.reply.t = "string"
      /\ hist[c].last.reply.c # <<>>
      /\ CleanReply(hist[c].last.reply.c) = <<>>
      /\ call[c].result = Raised(ClassifyError(MsgEmptyReply))

\* the edges of the state diagram of the README
DocumentedEdges ==
    { <<"idle", "listening">>, <<"listening", "processing">>,
      <<"listening", "error">>, <<"processing", "speaking">>,
      <<"speaking", "idle">>, <<"error", "idle">> }

\* C30 as claimed: the status of the App changes along the edges of the state
\* diagram only: idle to listening, listening to processing, listening to
\* error, processing to speaking, speaking to idle, error to idle.
C30_AsClaimed ==
    [][status' # status => <<status, status'>> \in DocumentedEdges]_vars

\* C31: a response that was read and holds no working key makes the attempt
\* fail as a network failure does: nothing is cached; below MAX_RETRIES the
\* call waits RETRY_DELAY times the number of the attempt, and the end of the
\* wait starts the next fetch; at MAX_RETRIES the call fails.  An attempt,
\* the first or a later one, whose response holds working keys makes
\* fetchApiKeys return them.
C31_EmptyResponseRetried ==
    [][\A c \in Calls :
         /\ \A o \in FetchOutcomes :
              (JsonReturns(c, o) /\ o.valid /\ o.workingKeys = <<>>)
                => /\ cachedApiKeys' = cachedApiKeys
                   /\ lastFetchTime' = lastFetchTime
                   /\ hist'[c].stage = "creds"
                   /\ IF call[c].attempt < MAX_RETRIES
                      THEN /\ call'[c].pc = "backoff"
                           /\ call'[c].attempt = call[c].attempt
                           /\ call'[c].wakeAt = now + RETRY_DELAY * call[c].attempt
                      ELSE /\ call'[c].pc = "done"
                           /\ call'[c].result = Raised(ClassifyError(MsgFetchFailed))
         /\ (BackoffEnds(c) /\ hist[c].lastFetch = "empty")
              => /\ call'[c].pc = "fetch"
                 /\ call'[c].attempt = call[c].attempt + 1
                 /\ hist'[c].fetches = hist[c].fetches + 1
         /\ \A o \in FetchOutcomes :
              (JsonReturns(c, o) /\ o.valid /\ o.workingKeys # <<>>)
                => /\ hist'[c].stage = "loop"
                   /\ hist'[c].fetched
                   /\ call'[c].apiKeys = Array(o.workingKeys)
                   /\ call'[c].pc = "provider"]_vars

\* the first attempt of a call has got a response without working keys: the
\* call waits for its second attempt
C31_Witness ==
    \E c \in Calls :
      /\ call[c].pc = "backoff"
      /\ hist[c].lastFetch = "empty"
      /\ call[c].attempt = 1
      /\ call[c].wakeAt = now + RETRY_DELAY

\* C32 as claimed: a call that passes the gate and fails at the validation of
\* its message has written the time stamp of the gate and issued no network
\* call, and a call started less than the minimum interval after it is
\* rejected at the gate.
C32_AsClaimed ==
    [][\A c \in Calls :
         /\ \A q \in Questions :
              (/\ Respond(c, q)
               /\ ~RateLimited(now, lastRequestTime)
               /\ IsInvalidQuestion(q.sanitizedMessage))
                => /\ hist'[c].stage = "input"
                   /\ lastRequestTime' = now
                   /\ NoNetworkCall(hist'[c], call'[c])
         /\ (/\ Starts(c)
             /\ invalidPassed
             /\ now - gatePassedAt < MIN_REQUEST_INTERVAL)
              => hist'[c].stage = "gate"]_vars

\* C33 as claimed: the time stamp of the cache never decreases, apart from
\* refreshApiKeys setting it to 0: every step of a call that writes the time
\* stamp writes one that is at least the one it replaces.
C33_AsClaimed ==
    [][\/ lastFetchTime' >= lastFetchTime
       \/ refreshApiKeys /\ lastFetchTime' = 0]_vars

\* C34: the App has at most one call of getRealGeminiResponse in flight; a
\* click on the microphone does nothing while the status is processing or
\* speaking; a call is started only by the end event of a recognition whose
\* shouldProcess flag is set, which clears the flag, so at most once for a
\* session, and the flag is only set by a click made while the status is idle
\* or error.
C34_OneRespondCall ==
    /\ [](backend <= 1)
    /\ [](status \in {"processing", "speaking"} => ~ENABLED handleMicClick)
    /\ [][/\ backend' > backend
              => /\ backend = 0 /\ backend' = 1
                 /\ recognition \in {"active", "ending"}
                 /\ recognition' = "inactive"
                 /\ shouldProcess /\ ~shouldProcess'
                 /\ status' = "processing"
          /\ (shouldProcess' /\ ~shouldProcess)
              => /\ status \in {"idle", "error"}
                 /\ handleMicClick]_vars

\* the call is in flight: the recognition has ended, its flag is cleared and
\* the status holds the click back
C34_Witness ==
    /\ backend = 1
    /\ status = "processing"
    /\ recognition = "inactive"
    /\ ~shouldProcess
    /\ Trim(lastTranscript) # <<>>

\* C35: every credential of the pool that fetchApiKeys gave a call passes the
\* re-check of the loop (line 335), so the loop skips no credential: the
\* provider call under way is the one with the credential whose index is the
\* number of provider calls that came back, its key is valid, and the loop
\* never runs out (line 417): a call that has ended in the loop has ended at a
\* credential of the pool, with as many provider calls as credentials up to it.
C35_RecheckNeverSkips ==
    \A c \in Calls :
      hist[c].stage = "loop"
        => LET keys == call[c].apiKeys.keys
           IN /\ \A k \in 1..Len(keys) : isValidApiKey(SelectKey(keys[k]))
              /\ \A k \in 0..(Len(keys) - 1) : NextUsable(keys, k) = k
              /\ call[c].i < Len(keys)
              /\ call[c].pc = "provider"
                   => /\ hist[c].asked = call[c].i
                      /\ isValidApiKey(SelectKey(keys[call[c].i + 1]))
              /\ call[c].pc = "done" => hist[c].asked = call[c].i + 1

\* the provider call with the last credential of a pool of MaxRecords is under
\* way, after one provider call for each credential before it
C35_Witness ==
    \E c \in Calls :
      /\ call[c].pc = "provider"
      /\ Len(call[c].apiKeys.keys) = MaxRecords
      /\ call[c].i = MaxRecords - 1
      /\ hist[c].asked = MaxRecords - 1

====
